---- MODULE Spec2Model ----
(***************************************************************************)
(* A model of three parts of zynthian-ui:                                  *)
(*   - zyngine/zynthian_engine_audio_mixer.py: the zynmixer wrapper, its   *)
(*     cached controller values, snapshots and MIDI-learn binding table;   *)
(*   - zyngui/zynthian_gui_control.py: the control screen's switch, back   *)
(*     and paging handlers;                                                *)
(*   - zyngine/zynthian_engine_setbfree.py: the program-list line parser.  *)
(* Values of the float controllers are kept in tenths (level 0.8 is 8).    *)
(***************************************************************************)
EXTENDS Integers, Sequences, FiniteSets, TLC

VARIABLES
    lib_zynmixer,       \* TRUE while the native library is loaded, FALSE for None
    libstate,           \* the native library's own value of each strip parameter
    zctrls,             \* cached value of each strip's controllers
    learned_cc,         \* 16 dictionaries: MIDI channel -> (cc -> controller)
    midi_learn_zctrl,   \* controller armed for learning, or None
    midi_learn_cb,      \* TRUE when a learn callback is registered
    midi_single_active_channel,  \* zynthian_gui_config.midi_single_active_channel
    last,               \* the last call made: its name, arguments and outcome
    gui,                \* the control screen's fields and those of zyngui it reads
    gui_last,           \* the last GUI handler run, its arguments and its result
    pgm                 \* load_pgm_list: the file's lines and the loop's variables

mixer_vars == <<lib_zynmixer, libstate, zctrls, learned_cc, midi_learn_zctrl,
                midi_learn_cb, midi_single_active_channel, last>>

vars == <<mixer_vars, gui, gui_last, pgm>>

None == [type |-> "None"]

(***************************************************************************)
(* Bounds and constants                                                    *)
(***************************************************************************)
\* getMaxChannels() of the native library: the number of channel strips
\* (the main mix bus excluded).
LibMaxChannels == 1

\* self.MAX_NUM_CHANNELS, read once from the library at construction.
MAX_NUM_CHANNELS == LibMaxChannels

NumMidiChannels == 16

Symbols == {"level", "balance", "mute", "solo", "mono", "phase"}

\* the strips built by the constructor: 0..MAX_NUM_CHANNELS, the last one
\* being the main mix bus
Strips == 0..MAX_NUM_CHANNELS

\* channel arguments tried by the calls: every strip and one index beyond
ChannelArgs == 0..(MAX_NUM_CHANNELS + 1)

value_default(symbol) == IF symbol = "level" THEN 8 ELSE 0

value_min(symbol) == IF symbol = "balance" THEN -10 ELSE 0

value_max(symbol) == IF symbol \in {"level", "balance"} THEN 10 ELSE 1

\* values passed to the setters: the default and one other value
ValueArgs(symbol) == {value_default(symbol), value_max(symbol)}

\* bound on the strip parameters held away from their initial value at a time
MaxOffDefault == 1

\* bound on the bindings the table holds at a time
MaxBindings == 2

\* bound on the number of lines of a program file
MaxLines == 2

(***************************************************************************)
(* The mixer state handled by the operators below: the cached controller   *)
(* values, the library's values, and whether an exception is propagating.  *)
(***************************************************************************)
Mixer(z, l, r) == [zctrls |-> z, libstate |-> l, raised |-> r]

Cur == Mixer(zctrls, libstate, FALSE)

get_max_channels == IF lib_zynmixer THEN LibMaxChannels ELSE 0

ClampChannelBelowMain(channel) ==
    IF channel >= MAX_NUM_CHANNELS THEN MAX_NUM_CHANNELS - 1 ELSE channel

ClampChannel(channel) ==
    IF channel >= MAX_NUM_CHANNELS THEN MAX_NUM_CHANNELS ELSE channel

\* lib_zynmixer.setLevel / setBalance / setMute / setPhase / setSolo / setMono
LibSet(m, symbol, channel, value) ==
    [m EXCEPT !.libstate[channel][symbol] = value]

\* zynthian_controller.set_value(val, False): the controller keeps the value
ZctrlStore(m, strip, symbol, value) ==
    [m EXCEPT !.zctrls[strip][symbol] = value]

\* the common body of set_level, set_balance, set_mute, set_phase, set_solo
\* and set_mono
SetParam(m, symbol, channel, value, update) ==
    LET ch == ClampChannel(channel)
        m1 == IF lib_zynmixer THEN LibSet(m, symbol, ch, value) ELSE m
    IN  IF update THEN ZctrlStore(m1, ch, symbol, value) ELSE m1

set_level(m, channel, level, update) == SetParam(m, "level", channel, level, update)

set_balance(m, channel, balance, update) == SetParam(m, "balance", channel, balance, update)

set_mute(m, channel, mute, update) == SetParam(m, "mute", channel, mute, update)

set_phase(m, channel, phase, update) == SetParam(m, "phase", channel, phase, update)

set_solo(m, channel, solo, update) == SetParam(m, "solo", channel, solo, update)

set_mono(m, channel, mono, update) == SetParam(m, "mono", channel, mono, update)

\* the value of the update parameter when the caller leaves it out
DefaultUpdate(symbol) == IF symbol = "mute" THEN FALSE ELSE TRUE

\* getattr(self, 'set_{}'.format(symbol))
SetBySymbol(m, symbol, channel, value, update) ==
    CASE symbol = "level"   -> set_level(m, channel, value, update)
      [] symbol = "balance" -> set_balance(m, channel, value, update)
      [] symbol = "mute"    -> set_mute(m, channel, value, update)
      [] symbol = "phase"   -> set_phase(m, channel, value, update)
      [] symbol = "solo"    -> set_solo(m, channel, value, update)
      [] symbol = "mono"    -> set_mono(m, channel, value, update)

\* send_controller_value(zctrl): the strip index is the controller's midi_chan
send_controller_value(m, strip, symbol) ==
    SetBySymbol(m, symbol, strip, m.zctrls[strip][symbol], FALSE)

\* zynthian_controller.set_value(val, send)
ZctrlSetValue(m, strip, symbol, value, send) ==
    LET m1 == ZctrlStore(m, strip, symbol, value)
    IN  IF send THEN send_controller_value(m1, strip, symbol) ELSE m1

\* zynthian_controller.reset_value()
ZctrlResetValue(m, strip, symbol) ==
    ZctrlSetValue(m, strip, symbol, value_default(symbol), TRUE)

(***************************************************************************)
(* Toggles                                                                 *)
(***************************************************************************)
\* lib_zynmixer.toggleMute / togglePhase
LibToggle(m, symbol, channel) ==
    [m EXCEPT !.libstate[channel][symbol] = 1 - m.libstate[channel][symbol]]

Raise(m) == [m EXCEPT !.raised = TRUE]

toggle_mute(m, channel) ==
    LET ch == ClampChannel(channel)
    IN  IF lib_zynmixer THEN LibToggle(m, "mute", ch) ELSE m

\* line 216 reads lib_zynmixer.getPhase: AttributeError when the library is None
toggle_phase(m, channel, update) ==
    LET ch == ClampChannel(channel)
        m1 == IF lib_zynmixer THEN LibToggle(m, "phase", ch) ELSE m
    IN  IF update
        THEN IF lib_zynmixer
             THEN ZctrlStore(m1, ch, "phase", m1.libstate[ch]["phase"])
             ELSE Raise(m1)
        ELSE m1

\* lib_zynmixer.getDpm / getDpmHold, in tenths of a dB: a silent mixer
LibGetDpm(channel, leg) == 0 - 2000

\* lib_zynmixer.isChannelRouted: nothing is routed
LibIsChannelRouted(channel) == 0

get_level(m, channel) == IF lib_zynmixer THEN m.libstate[channel]["level"] ELSE 0

get_balance(m, channel) == IF lib_zynmixer THEN m.libstate[channel]["balance"] ELSE 0

\* without the library the answer is True, which is 1
get_mute(m, channel) == IF lib_zynmixer THEN m.libstate[channel]["mute"] ELSE 1

get_phase(m, channel) == IF lib_zynmixer THEN m.libstate[channel]["phase"] ELSE 1

is_channel_routed(channel) ==
    IF lib_zynmixer THEN LibIsChannelRouted(channel) # 0 ELSE FALSE

\* -200.0 in tenths of a dB
get_dpm(channel, leg) == IF lib_zynmixer THEN LibGetDpm(channel, leg) ELSE 0 - 2000

get_dpm_hold(channel, leg) == IF lib_zynmixer THEN LibGetDpm(channel, leg) ELSE 0 - 2000

get_solo(m, channel) == IF lib_zynmixer THEN m.libstate[channel]["solo"] = 1 ELSE TRUE

get_mono(m, channel) == IF lib_zynmixer THEN m.libstate[channel]["mono"] = 1 ELSE TRUE

\* line 253 asks the library for get_solo, a name the library does not export
\* (it exports getSolo): ctypes raises AttributeError, and None has no
\* attribute either
toggle_solo(m, channel, update) ==
    LET ch == ClampChannel(channel)
        m1 == IF lib_zynmixer
              THEN IF get_solo(m, ch)
                   THEN set_solo(m, ch, 0, DefaultUpdate("solo"))
                   ELSE set_solo(m, ch, 1, DefaultUpdate("solo"))
              ELSE m
    IN  IF update THEN Raise(m1) ELSE m1

toggle_mono(m, channel, update) ==
    LET ch == ClampChannel(channel)
        m1 == IF lib_zynmixer
              THEN IF get_mono(m, ch)
                   THEN set_mono(m, ch, 0, DefaultUpdate("mono"))
                   ELSE set_mono(m, ch, 1, DefaultUpdate("mono"))
              ELSE m
    IN  IF update
        THEN IF lib_zynmixer
             THEN ZctrlStore(m1, ch, "mono", m1.libstate[ch]["mono"])
             ELSE Raise(m1)
        ELSE m1

(***************************************************************************)
(* State management (for snapshots)                                        *)
(***************************************************************************)
PyInt(n) == [type |-> "int", v |-> n]

PyStr(s) == [type |-> "str", v |-> s]

isinstance_int(x) == x.type = "int"

\* The mixer state after six calls that each wrote their own symbol only:
\* symbol by symbol, what the call for that symbol left.
MergeBySymbol(m, level, balance, mute, solo, mono, phase) ==
    LET of(symbol) ==
            CASE symbol = "level"   -> level
              [] symbol = "balance" -> balance
              [] symbol = "mute"    -> mute
              [] symbol = "solo"    -> solo
              [] symbol = "mono"    -> mono
              [] symbol = "phase"   -> phase
    IN  Mixer([s \in Strips |-> [symbol \in Symbols |-> of(symbol).zctrls[s][symbol]]],
              [s \in Strips |-> [symbol \in Symbols |-> of(symbol).libstate[s][symbol]]],
              m.raised)

\* reset without the solo controller
resetSkipsSolo(m, channel) ==
    IF ~isinstance_int(channel) THEN m
    ELSE LET ch == ClampChannel(channel.v)
             level   == ZctrlResetValue(m, ch, "level")
             balance == ZctrlResetValue(m, ch, "balance")
             mute    == ZctrlResetValue(m, ch, "mute")
             mono    == ZctrlResetValue(m, ch, "mono")
             phase   == ZctrlResetValue(m, ch, "phase")
         IN  MergeBySymbol(m, level, balance, mute, m, mono, phase)

reset(m, channel) ==
    IF ~isinstance_int(channel) THEN m
    ELSE LET ch == ClampChannel(channel.v)
             level   == ZctrlResetValue(m, ch, "level")
             balance == ZctrlResetValue(m, ch, "balance")
             mute    == ZctrlResetValue(m, ch, "mute")
             mono    == ZctrlResetValue(m, ch, "mono")
             solo    == ZctrlResetValue(m, ch, "solo")
             phase   == ZctrlResetValue(m, ch, "phase")
         IN  MergeBySymbol(m, level, balance, mute, solo, mono, phase)

\* reset_state(): reset(channel) for channel in range(get_max_channels() + 1).
\* reset(channel) writes strip ClampChannel(channel) only, and what it writes
\* does not depend on the calls before it.
reset_state(m) ==
    LET chans == 0..get_max_channels
        hit(s) == {channel \in chans : ClampChannel(channel) = s}
        row(s) == reset(m, PyInt(CHOOSE channel \in hit(s) : TRUE))
    IN  Mixer([s \in Strips |-> IF hit(s) = {} THEN m.zctrls[s] ELSE row(s).zctrls[s]],
              [s \in Strips |-> IF hit(s) = {} THEN m.libstate[s] ELSE row(s).libstate[s]],
              m.raised)

\* 'chan_{:02d}'.format(chan)
ChanKeys == <<"chan_00", "chan_01", "chan_02", "chan_03", "chan_04", "chan_05">>

ChanKey(chan) == ChanKeys[chan + 1]

\* every strip under the key of the main mix bus
StripKeyMain(chan) == "main"

\* the key of a strip in get_state and set_state
StripKey(chan) == IF chan < get_max_channels THEN ChanKey(chan) ELSE "main"

\* zynthian_controller.get_state(full): the value, left out when it is the
\* default and full is False
ZctrlGetState(m, strip, symbol, full) ==
    IF full \/ m.zctrls[strip][symbol] # value_default(symbol)
    THEN [value |-> m.zctrls[strip][symbol]]
    ELSE <<>>

\* the dictionary built for one strip: empty controller states are left out
ChanState(m, chan, full) ==
    LET kept == {symbol \in Symbols : ZctrlGetState(m, chan, symbol, full) # <<>>}
    IN  [symbol \in kept |-> ZctrlGetState(m, chan, symbol, full)]

get_state(m, full) ==
    LET chans == 0..get_max_channels
        kept == {chan \in chans : ChanState(m, chan, full) # <<>>}
        keys == {StripKey(chan) : chan \in kept}
    IN  [key \in keys |->
            ChanState(m, CHOOSE chan \in kept :
                            /\ StripKey(chan) = key
                            /\ \A c2 \in kept : StripKey(c2) = key => c2 <= chan, full)]

\* int(x) of line 413
IntRaises(x) == x.type # "int"

\* self.learned_cc[chan][ccnum] = zctrl
LearnedCcStore(t, chan, cc, zctrl) ==
    [t EXCEPT ![chan] = [c \in (DOMAIN t[chan]) \cup {cc} |->
                            IF c = cc THEN zctrl ELSE t[chan][c]]]

\* zynthian_engine.set_midi_learn(zctrl, chan, cc): the binding table takes
\* the binding
set_midi_learn(t, strip, symbol, chan, cc) ==
    LearnedCcStore(t, chan, cc, <<strip, symbol>>)

\* the body of set_state's inner loop for one controller: the mixer state it
\* leaves and the binding it hands to set_midi_learn (None when it hands none)
SetStateCtrl(m, state, full, chan, symbol) ==
    LET key == StripKey(chan)
        found == key \in DOMAIN state /\ symbol \in DOMAIN state[key]
        ctrl_state == state[key][symbol]
        m1 == IF "value" \in DOMAIN ctrl_state
              THEN ZctrlSetValue(m, chan, symbol, ctrl_state["value"], TRUE)
              ELSE m
        learn == "midi_learn_chan" \in DOMAIN ctrl_state
                    /\ "midi_learn_cc" \in DOMAIN ctrl_state
        bad == IntRaises(ctrl_state["midi_learn_chan"])
                    \/ IntRaises(ctrl_state["midi_learn_cc"])
    IN  IF ~found
        THEN [m |-> IF full THEN ZctrlResetValue(m, chan, symbol) ELSE m, bind |-> None]
        ELSE IF ~learn
        THEN [m |-> m1, bind |-> None]
        ELSE IF bad
        THEN [m |-> IF full THEN ZctrlResetValue(m1, chan, symbol) ELSE m1, bind |-> None]
        ELSE [m |-> m1,
              bind |-> [chan |-> ctrl_state["midi_learn_chan"].v,
                        cc |-> ctrl_state["midi_learn_cc"].v]]

\* set_midi_learn is reached only by a controller whose entry names a binding
Bind(t, chan, symbol, b) ==
    IF b = None THEN t ELSE set_midi_learn(t, chan, symbol, b.chan, b.cc)

\* one pass of set_state's outer loop, over the strip's controllers in
\* dictionary order (level, balance, mute, solo, mono, phase: lines 57-62);
\* each controller writes the values of its own symbol only
SetStateStrip(ms, state, full, chan) ==
    LET m == ms.m
        level   == SetStateCtrl(m, state, full, chan, "level")
        balance == SetStateCtrl(m, state, full, chan, "balance")
        mute    == SetStateCtrl(m, state, full, chan, "mute")
        solo    == SetStateCtrl(m, state, full, chan, "solo")
        mono    == SetStateCtrl(m, state, full, chan, "mono")
        phase   == SetStateCtrl(m, state, full, chan, "phase")
        t1 == Bind(ms.t, chan, "level", level.bind)
        t2 == Bind(t1, chan, "balance", balance.bind)
        t3 == Bind(t2, chan, "mute", mute.bind)
        t4 == Bind(t3, chan, "solo", solo.bind)
        t5 == Bind(t4, chan, "mono", mono.bind)
        t6 == Bind(t5, chan, "phase", phase.bind)
    IN  [m |-> MergeBySymbol(m, level.m, balance.m, mute.m, solo.m, mono.m, phase.m),
         t |-> t6]

RECURSIVE SetStateLoop(_, _, _, _)
SetStateLoop(ms, state, full, chan) ==
    IF chan > MAX_NUM_CHANNELS THEN ms
    ELSE SetStateLoop(SetStateStrip(ms, state, full, chan), state, full, chan + 1)

set_state(ms, state, full) == SetStateLoop(ms, state, full, 0)

(***************************************************************************)
(* The record of the last call.                                            *)
(***************************************************************************)
Call(op, channel, symbol, value, raised) ==
    [op |-> op, channel |-> channel, symbol |-> symbol, value |-> value,
     raised |-> raised]

StateCall(arg, full) ==
    [op |-> "set_state", arg |-> arg, full |-> full, raised |-> FALSE]

\* at most MaxOffDefault strip parameters are away from the library's initial
\* value at a time (in the cache or in the library)
OffDefault(m) ==
    {c \in Strips \X Symbols :
        \/ m.zctrls[c[1]][c[2]] # value_default(c[2])
        \/ m.libstate[c[1]][c[2]] # value_default(c[2])}

Commit(m) ==
    /\ Cardinality(OffDefault(m)) <= MaxOffDefault
    /\ zctrls' = m.zctrls
    /\ libstate' = m.libstate

OthersUnchanged == UNCHANGED <<gui, gui_last, pgm>>

LearnUnchanged ==
    /\ UNCHANGED <<learned_cc, midi_learn_zctrl, midi_learn_cb, midi_single_active_channel>>
    /\ OthersUnchanged

(***************************************************************************)
(* zynthian_gui_control: the control screen. gui holds the fields of the    *)
(* screen (mode, xyselect_mode, midi_learning, index, shown, the length of  *)
(* list_data) and what it reads of zyngui (midi_learn_mode,                 *)
(* midi_learn_zctrl, whether the XY screen and the ALSA mixer are shown).   *)
(***************************************************************************)
GuiInit ==
    [mode |-> "None", xyselect_mode |-> FALSE, midi_learning |-> FALSE,
     index |-> 0, list_len |-> 0, shown |-> FALSE, zcontrollers |-> 0,
     midi_learn_mode |-> FALSE, midi_learn_zctrl |-> FALSE,
     control_xy_shown |-> FALSE, alsa_mixer_shown |-> FALSE]

GuiCall(op, swi, t, ret, selected) ==
    [op |-> op, swi |-> swi, t |-> t, ret |-> ret, selected |-> selected]

\* a handler's outcome: the fields it leaves, what it returns ("True", "False",
\* or "None" when it ends without a return statement) and the index it handed
\* to select (-2 when it selected nothing)
Out(g, ret, selected) == [g |-> g, ret |-> ret, selected |-> selected]

NoSelect == 0 - 2

\* layer.get_ctrl_screen(title): the controllers of the screen at index i of
\* list_data, four on the first screen and two on the others
ScreenCtrls(i) == IF i = 0 THEN 4 ELSE 2

\* set_controller_screen(): zcontrollers holds the controllers of the screen
\* at index, none when index is outside list_data; widget i shows controller
\* i when i < len(zcontrollers) and no controller otherwise
set_controller_screen(g) ==
    [g EXCEPT !.zcontrollers = IF 0 <= g.index /\ g.index < g.list_len
                               THEN ScreenCtrls(g.index) ELSE 0]

set_mode_control(g) == set_controller_screen([g EXCEPT !.mode = "control"])

\* zynthian_gui_selector.select(index): the index becomes the selection
selector_select(g, i) == [g EXCEPT !.index = i]

select(g, i) ==
    LET g1 == selector_select(g, i)
    IN  IF g1.mode = "select" THEN set_controller_screen(g1) ELSE g1

set_mode_select(g) == select([g EXCEPT !.mode = "select"], g.index)

select_action(g) == set_mode_control(g)

\* zynthian_gui_selector.click_listbox(): the current selection is run through
\* select_action
click_listbox(g) == select_action(g)

exit_midi_learn(g) == [g EXCEPT !.midi_learning = FALSE]

enter_midi_learn(g) == [g EXCEPT !.midi_learning = TRUE]

\* zyngui.exit_midi_learn(): both learn flags are cleared and the current
\* screen leaves MIDI learn
zyngui_exit_midi_learn(g) ==
    exit_midi_learn([g EXCEPT !.midi_learn_mode = FALSE, !.midi_learn_zctrl = FALSE])

\* zyngui.enter_midi_learn(): global learn mode is set, no controller is being
\* learned, and the current screen enters MIDI learn
zyngui_enter_midi_learn(g) ==
    enter_midi_learn([g EXCEPT !.midi_learn_mode = TRUE, !.midi_learn_zctrl = FALSE])

unset_xyselect_mode(g) == [g EXCEPT !.xyselect_mode = FALSE]

\* build_view(): with a current layer the list is rebuilt and clicked
build_view(g) == click_listbox(g)

\* zynthian_gui_base.show()
show(g) == [g EXCEPT !.shown = TRUE]

previous_page(g, wrap) ==
    LET i == IF g.index - 1 < 0 THEN 0 ELSE g.index - 1
    IN  Out(click_listbox(select(g, i)), "None", i)

\* next_page that stops at the last entry whatever wrap says
next_page_stops(g, wrap) ==
    LET i == IF g.index + 1 >= g.list_len THEN g.list_len - 1 ELSE g.index + 1
    IN  Out(click_listbox(select(g, i)), "None", i)

next_page(g, wrap) ==
    LET i == IF g.index + 1 >= g.list_len
             THEN IF wrap THEN 0 ELSE g.list_len - 1
             ELSE g.index + 1
    IN  Out(click_listbox(select(g, i)), "None", i)

\* back_action that looks at MIDI learn before xyselect mode
back_action_learn_first(g) ==
    IF g.mode = "select"
    THEN Out(set_mode_control(g), "True", NoSelect)
    ELSE IF g.midi_learn_mode \/ g.midi_learn_zctrl
    THEN Out(zyngui_exit_midi_learn(g), "True", NoSelect)
    ELSE IF g.xyselect_mode
    THEN LET g1 == IF g.control_xy_shown
                   THEN [g EXCEPT !.control_xy_shown = FALSE]
                   ELSE unset_xyselect_mode(g)
         IN  Out(show(build_view(g1)), "True", NoSelect)
    ELSE Out(g, "False", NoSelect)

back_action(g) ==
    IF g.mode = "select"
    THEN Out(set_mode_control(g), "True", NoSelect)
    ELSE IF g.xyselect_mode
    THEN LET g1 == IF g.control_xy_shown
                   THEN [g EXCEPT !.control_xy_shown = FALSE]
                   ELSE unset_xyselect_mode(g)
         IN  Out(show(build_view(g1)), "True", NoSelect)
    ELSE IF g.midi_learn_mode \/ g.midi_learn_zctrl
    THEN Out(zyngui_exit_midi_learn(g), "True", NoSelect)
    ELSE Out(g, "False", NoSelect)

\* zynthian_controller.init_midi_learn(): zyngui holds the controller as the
\* one being learned
init_midi_learn(g) == [g EXCEPT !.midi_learn_zctrl = TRUE]

\* midi_learn(i): what it leaves and the widgets whose controller it started
\* learning
midi_learn(g, i) ==
    IF g.mode = "control" /\ i < g.zcontrollers
    THEN [g |-> init_midi_learn(g), started |-> {i}]
    ELSE [g |-> g, started |-> {}]

\* midi_learn_zctrl(i) that leaves global MIDI-learn mode on
gui_midi_learn_zctrl_keeps_mode(g, i) ==
    IF g.shown /\ g.midi_learn_mode
    THEN midi_learn(g, i)
    ELSE [g |-> g, started |-> {}]

\* zynthian_gui_control.midi_learn_zctrl(i)
gui_midi_learn_zctrl(g, i) ==
    IF g.shown /\ g.midi_learn_mode
    THEN midi_learn([g EXCEPT !.midi_learn_mode = FALSE], i)
    ELSE [g |-> g, started |-> {}]

\* zynthian_gui_controller.zynpot_cb(dval) of widget i: whether it changed its
\* controller, which a widget without controller never does
WidgetZynpotCb(g, i, moved) == moved /\ i < g.zcontrollers

\* zynthian_gui_selector.zynpot_cb(i, dval): the encoder drives the selector
selector_zynpot_cb(g, i) == g

\* zynpot_cb(i, dval): what it leaves, who received the event ("controller",
\* "selector" or "ignored") and the widgets whose controller started learning
zynpot_cb(g, i, moved) ==
    IF g.mode = "control" /\ g.zcontrollers > 0
    THEN IF WidgetZynpotCb(g, i, moved)
         THEN LET r == gui_midi_learn_zctrl(g, i)
              IN  [g |-> r.g, reached |-> "controller", started |-> r.started]
         ELSE [g |-> g, reached |-> "controller", started |-> {}]
    ELSE IF g.mode = "select"
    THEN [g |-> selector_zynpot_cb(g, i), reached |-> "selector", started |-> {}]
    ELSE [g |-> g, reached |-> "ignored", started |-> {}]

\* zynthian_gui_base.hide()
base_hide(g) == [g EXCEPT !.shown = FALSE]

arrow_up(g) == Out(previous_page(g, FALSE).g, "True", previous_page(g, FALSE).selected)

arrow_down(g) == Out(next_page(g, FALSE).g, "True", next_page(g, FALSE).selected)

toggle_midi_learn(g) ==
    IF g.midi_learn_mode THEN zyngui_exit_midi_learn(g) ELSE zyngui_enter_midi_learn(g)

\* hide(): zyngui leaves MIDI learn and the screen is hidden
hide(g) == base_hide(zyngui_exit_midi_learn(g))

\* the confirmation dialog is left to zyngui; the screen leaves MIDI learn
midi_unlearn_action(g) == exit_midi_learn(g)

\* switch(swi, t): arrow_right, cuia_bank_preset and the layer_options screen
\* belong to zyngui and leave the fields of gui alone
switch(g, swi, t) ==
    CASE swi = 0 ->
            IF t = "S" THEN Out(g, "True", NoSelect) ELSE Out(g, "None", NoSelect)
      [] swi = 1 ->
            IF t = "S"
            THEN LET b == back_action(g)
                 IN  IF b.ret = "True" THEN Out(b.g, "True", NoSelect)
                     ELSE IF ~b.g.alsa_mixer_shown THEN Out(b.g, "True", NoSelect)
                     ELSE Out(b.g, "None", NoSelect)
            ELSE Out(back_action(g).g, "False", NoSelect)
      [] swi = 2 ->
            IF t = "S"
            THEN Out(IF g.mode = "control" THEN toggle_midi_learn(g) ELSE g,
                     "True", NoSelect)
            ELSE IF t = "B"
            THEN IF g.midi_learning
                 THEN Out(midi_unlearn_action(g), "True", NoSelect)
                 ELSE Out(g, "None", NoSelect)
            ELSE Out(g, "None", NoSelect)
      [] swi = 3 ->
            IF t = "S"
            THEN IF g.mode \in {"control", "xyselect"}
                 THEN IF g.list_len > 3
                      THEN Out(set_mode_select(g), "True", g.index)
                      ELSE LET n == next_page(g, TRUE)
                           IN  Out(n.g, "True", n.selected)
                 ELSE IF g.mode = "select"
                 THEN Out(click_listbox(g), "True", NoSelect)
                 ELSE Out(g, "True", NoSelect)
            ELSE Out(g, "True", NoSelect)
      [] OTHER -> Out(g, "None", NoSelect)

(***************************************************************************)
(* zynthian_engine_setbfree.load_pgm_list. A line is a sequence of          *)
(* one-character strings; the pattern of line 91 is                         *)
(*     ^([\d]+)[\s]*\{[\s]*name\=\"([^\"]+)\"                               *)
(***************************************************************************)
PgmIdle == [lines |-> <<>>, pos |-> 1, i |-> 0, pgm_list |-> <<>>]

Digits == <<"0", "1", "2", "3", "4", "5", "6", "7", "8", "9">>

IsDigit(c) == \E k \in 1..Len(Digits) : Digits[k] = c

IsSpace(c) == c \in {" ", "\t", "\n"}

Quote == "\""

NameLiteral == <<"n", "a", "m", "e", "=", Quote>>

\* the first position at or after pos whose character fails the test
RECURSIVE SkipDigits(_, _)
SkipDigits(line, pos) ==
    IF pos <= Len(line) /\ IsDigit(line[pos]) THEN SkipDigits(line, pos + 1) ELSE pos

RECURSIVE SkipSpace(_, _)
SkipSpace(line, pos) ==
    IF pos <= Len(line) /\ IsSpace(line[pos]) THEN SkipSpace(line, pos + 1) ELSE pos

RECURSIVE SkipNotQuote(_, _)
SkipNotQuote(line, pos) ==
    IF pos <= Len(line) /\ line[pos] # Quote THEN SkipNotQuote(line, pos + 1) ELSE pos

HasAt(line, pos, lit) ==
    /\ pos + Len(lit) - 1 <= Len(line)
    /\ \A k \in 1..Len(lit) : line[pos + k - 1] = lit[k]

\* ptrn.match(line): the two groups of the match, or None. Every repetition
\* of the pattern is followed by a character outside its class, so the greedy
\* match is the only one.
Match(line) ==
    LET d == SkipDigits(line, 1)
        b == SkipSpace(line, d)
        n == SkipSpace(line, b + 1)
        t == n + Len(NameLiteral)
        q == SkipNotQuote(line, t)
    IN  IF /\ d > 1
           /\ HasAt(line, b, <<"{">>)
           /\ HasAt(line, n, NameLiteral)
           /\ q > t
           /\ HasAt(line, q, <<Quote>>)
        THEN [group1 |-> SubSeq(line, 1, d - 1), group2 |-> SubSeq(line, t, q - 1)]
        ELSE None

DigitValue(c) == (CHOOSE k \in 1..Len(Digits) : Digits[k] = c) - 1

\* int(m.group(1))
RECURSIVE ParseInt(_)
ParseInt(digits) ==
    IF digits = <<>> THEN 0
    ELSE 10 * ParseInt(SubSeq(digits, 1, Len(digits) - 1)) + DigitValue(digits[Len(digits)])

\* the body of the loop over the lines (lines 94-103)
\* the entry counter advances on every matching line
ParseLineCountsAll(p) ==
    LET line == p.lines[p.pos]
        m == Match(line)
        prg == ParseInt(m.group1) - 1
        title == m.group2
    IN  IF m = None THEN [p EXCEPT !.pos = p.pos + 1]
        ELSE IF prg >= 0
        THEN [p EXCEPT !.pgm_list = Append(p.pgm_list, <<p.i, <<0, 0, prg>>, title>>),
                       !.i = p.i + 1,
                       !.pos = p.pos + 1]
        ELSE [p EXCEPT !.i = p.i + 1, !.pos = p.pos + 1]

ParseLine(p) ==
    LET line == p.lines[p.pos]
        m == Match(line)
        prg == ParseInt(m.group1) - 1
        title == m.group2
    IN  IF m # None /\ prg >= 0
        THEN [p EXCEPT !.pgm_list = Append(p.pgm_list, <<p.i, <<0, 0, prg>>, title>>),
                       !.i = p.i + 1,
                       !.pos = p.pos + 1]
        ELSE [p EXCEPT !.pos = p.pos + 1]

\* the lines of the files tried
FileLines ==
    << <<"1", " ", "{", "n", "a", "m", "e", "=", Quote, "A", Quote, "}", "\n">>,
       <<"1", "2", "{", " ", "n", "a", "m", "e", "=", Quote, "B", "c", Quote, "\n">>,
       <<"0", " ", "{", "n", "a", "m", "e", "=", Quote, "Z", Quote, "}", "\n">>,
       <<"0", "3", "\t", "{", "n", "a", "m", "e", "=", Quote, "D", " ", "e", Quote, "}", "\n">>,
       <<" ", "2", "{", "n", "a", "m", "e", "=", Quote, "E", Quote, "}", "\n">>,
       <<"4", "{", "n", "a", "m", "e", "=", Quote, Quote, "}", "\n">>,
       <<"5", " ", "[", "n", "a", "m", "e", "=", Quote, "F", Quote, "]", "\n">>,
       <<"6", "{", "n", "a", "m", "=", Quote, "G", Quote, "}", "\n">>,
       <<"7", "{", "n", "a", "m", "e", "=", Quote, "H", "}", "\n">>,
       <<"x", "8", "{", "n", "a", "m", "e", "=", Quote, "I", Quote, "}", "\n">>,
       <<"9", "{", "n", "a", "m", "e", "=", Quote, "J", Quote, " ", "k", "=", Quote, "v", Quote, "}", "\n">>,
       <<"2", "0", "\n">>,
       <<"\n">> >>

(***************************************************************************)
(* Initial state: the state after zynmixer.__init__ with the library       *)
(* loaded. Every controller starts with the value the library reports.     *)
(***************************************************************************)
LibInit == [s \in Strips |-> [symbol \in Symbols |-> value_default(symbol)]]

Init ==
    /\ lib_zynmixer = TRUE
    /\ libstate = LibInit
    /\ zctrls = [s \in Strips |-> [symbol \in Symbols |-> LibInit[s][symbol]]]
    /\ learned_cc = [chan \in 0..(NumMidiChannels - 1) |-> <<>>]
    /\ midi_learn_zctrl = None
    /\ midi_learn_cb = FALSE
    /\ midi_single_active_channel = FALSE
    /\ last = Call("init", None, "", 0, FALSE)
    /\ gui = GuiInit
    /\ gui_last = GuiCall("init", 0, "", "None", 0)
    /\ pgm = PgmIdle

(***************************************************************************)
(* Calls made with their default arguments                                 *)
(***************************************************************************)
SetCall(symbol) ==
    \E channel \in ChannelArgs, value \in ValueArgs(symbol) :
        /\ Commit(SetBySymbol(Cur, symbol, channel, value, DefaultUpdate(symbol)))
        /\ last' = Call("set", PyInt(channel), symbol, value, FALSE)
        /\ UNCHANGED lib_zynmixer
        /\ LearnUnchanged

SetLevel == SetCall("level")

SetBalance == SetCall("balance")

SetMute == SetCall("mute")

SetPhase == SetCall("phase")

SetSolo == SetCall("solo")

SetMono == SetCall("mono")

ToggleCall(symbol, m, channel) ==
    /\ Commit(m)
    /\ last' = Call("toggle", PyInt(channel), symbol, 0, m.raised)
    /\ UNCHANGED lib_zynmixer
    /\ LearnUnchanged

ToggleMute == \E channel \in ChannelArgs :
    ToggleCall("mute", toggle_mute(Cur, channel), channel)

TogglePhase == \E channel \in ChannelArgs :
    ToggleCall("phase", toggle_phase(Cur, channel, TRUE), channel)

ToggleSolo == \E channel \in ChannelArgs :
    ToggleCall("solo", toggle_solo(Cur, channel, TRUE), channel)

ToggleMono == \E channel \in ChannelArgs :
    ToggleCall("mono", toggle_mono(Cur, channel, TRUE), channel)

ResetArgs == {PyInt(channel) : channel \in ChannelArgs} \cup {PyStr("main"), None}

Reset == \E channel \in ResetArgs :
    /\ Commit(reset(Cur, channel))
    /\ last' = Call("reset", channel, "", 0, FALSE)
    /\ UNCHANGED lib_zynmixer
    /\ LearnUnchanged

ResetState ==
    /\ Commit(reset_state(Cur))
    /\ last' = Call("reset_state", None, "", 0, FALSE)
    /\ UNCHANGED lib_zynmixer
    /\ LearnUnchanged

\* The states handed to set_state:
\*   "own":   get_state(full) of the mixer as it is now;
\*   "saved": get_state(True) taken when the cached values were SavedValues[i];
\*   "entry": a dictionary naming one controller (with a value, without one,
\*            with a learned binding, with a binding that is not a number).
LearnChanArg == 0

LearnCcArg == 7

Entry(key, symbol, e) == [k \in {key} |-> [s \in {symbol} |-> e]]

EntryStates ==
    << <<>>,
       Entry(ChanKey(0), "level", [value |-> 10]),
       Entry("main", "mute", [value |-> 1]),
       Entry(ChanKey(0), "solo", <<>>),
       Entry(ChanKey(0), "balance",
             [value |-> 10, midi_learn_chan |-> PyInt(LearnChanArg),
              midi_learn_cc |-> PyInt(LearnCcArg)]),
       Entry("main", "phase",
             [value |-> 1, midi_learn_chan |-> None, midi_learn_cc |-> None]) >>

DefaultValues == [s \in Strips |-> [symbol \in Symbols |-> value_default(symbol)]]

SavedValues ==
    << DefaultValues,
       [DefaultValues EXCEPT ![0]["level"] = 10],
       [DefaultValues EXCEPT ![MAX_NUM_CHANNELS]["mute"] = 1] >>

StateArgs ==
    {[kind |-> "own", full |-> f] : f \in BOOLEAN}
    \cup {[kind |-> "saved", i |-> i] : i \in 1..Len(SavedValues)}
    \cup {[kind |-> "entry", i |-> i] : i \in 1..Len(EntryStates)}

StateOf(arg) ==
    CASE arg.kind = "own"   -> get_state(Cur, arg.full)
      [] arg.kind = "saved" -> get_state(Mixer(SavedValues[arg.i], libstate, FALSE), TRUE)
      [] arg.kind = "entry" -> EntryStates[arg.i]

SetState == \E arg \in StateArgs, full \in BOOLEAN :
    \E state \in {StateOf(arg)} :
    \E ms \in {set_state([m |-> Cur, t |-> learned_cc], state, full)} :
        /\ Commit(ms.m)
        /\ learned_cc' = ms.t
        /\ last' = StateCall(arg, full)
        /\ UNCHANGED <<lib_zynmixer, midi_learn_zctrl, midi_learn_cb,
                       midi_single_active_channel>>
        /\ OthersUnchanged

\* destroy that drops the handle
destroy_unloads == [lib_zynmixer |-> FALSE, raised |-> FALSE]

\* destroy(): lib_zynmixer.end() is called, then line 93 reads ctypes.dlclose,
\* a name the ctypes module does not have: AttributeError is raised before
\* line 94 sets lib_zynmixer to None
destroy ==
    IF lib_zynmixer
    THEN [lib_zynmixer |-> lib_zynmixer, raised |-> TRUE]
    ELSE [lib_zynmixer |-> FALSE, raised |-> FALSE]

Destroy ==
    /\ lib_zynmixer' = destroy.lib_zynmixer
    /\ last' = Call("destroy", None, "", 0, destroy.raised)
    /\ UNCHANGED <<libstate, zctrls>>
    /\ LearnUnchanged

(***************************************************************************)
(* MIDI learn                                                              *)
(***************************************************************************)
\* zynthian_controller.midi_control_change(val): the 0..127 value is scaled to
\* the controller's range and set, which also sends it to the mixer
ZctrlMidiControlChange(m, strip, symbol, val) ==
    ZctrlSetValue(m, strip, symbol,
                  value_min(symbol)
                    + (val * (value_max(symbol) - value_min(symbol))) \div 127,
                  TRUE)

\* disable_midi_learn that leaves the controller armed
disable_midi_learn_armed(cb) ==
    [midi_learn_zctrl |-> midi_learn_zctrl, cb_calls |-> IF cb THEN 1 ELSE 0]

\* disable_midi_learn(): the armed controller is cleared and the callback, when
\* one is registered, is called
disable_midi_learn(cb) ==
    [midi_learn_zctrl |-> None, cb_calls |-> IF cb THEN 1 ELSE 0]

\* the loop over the channels stops one channel early
BoundToButLast(t, chans, ccnum) ==
    {t[ch][ccnum] : ch \in {ch \in chans \ {NumMidiChannels - 1} : ccnum \in DOMAIN t[ch]}}

\* the incoming channel is ignored
BoundToAnyChannel(t, chans, ccnum) ==
    {t[ch][ccnum] : ch \in {ch \in DOMAIN t : ccnum \in DOMAIN t[ch]}}

\* the controllers the table binds to ccnum on the channels chans
BoundTo(t, chans, ccnum) ==
    {t[ch][ccnum] : ch \in {ch \in chans : ccnum \in DOMAIN t[ch]}}

\* every controller of `targets` receives val; a controller writes its own
\* value only, and an exception it raises is swallowed (lines 435, 440)
Forward(m, targets, val) ==
    Mixer([s \in Strips |-> [symbol \in Symbols |->
                IF <<s, symbol>> \in targets
                THEN ZctrlMidiControlChange(m, s, symbol, val).zctrls[s][symbol]
                ELSE m.zctrls[s][symbol]]],
          [s \in Strips |-> [symbol \in Symbols |->
                IF <<s, symbol>> \in targets
                THEN ZctrlMidiControlChange(m, s, symbol, val).libstate[s][symbol]
                ELSE m.libstate[s][symbol]]],
          m.raised)

\* midi_control_change(chan, ccnum, val): what it leaves of the mixer values,
\* the binding table and the armed controller, and how often it called the
\* learn callback
midi_control_change(m, chan, ccnum, val) ==
    IF midi_learn_zctrl # None
    THEN LET d == disable_midi_learn(midi_learn_cb)
         IN  [m |-> m,
              t |-> LearnedCcStore(learned_cc, chan, ccnum, midi_learn_zctrl),
              midi_learn_zctrl |-> d.midi_learn_zctrl,
              cb_calls |-> d.cb_calls,
              learned |-> midi_learn_zctrl,
              forwarded |-> {}]
    ELSE IF midi_single_active_channel
    THEN LET targets == BoundTo(learned_cc, 0..(NumMidiChannels - 1), ccnum)
         IN  [m |-> Forward(m, targets, val), t |-> learned_cc,
              midi_learn_zctrl |-> midi_learn_zctrl, cb_calls |-> 0,
              learned |-> None,
              forwarded |-> targets]
    ELSE LET targets == BoundTo(learned_cc, {chan}, ccnum)
         IN  [m |-> Forward(m, targets, val), t |-> learned_cc,
              midi_learn_zctrl |-> midi_learn_zctrl, cb_calls |-> 0,
              learned |-> None,
              forwarded |-> targets]

\* controllers armed, channels, cc numbers and values of the MIDI events tried
\* midi_unlearn(zctrl): `for chan in self.learned_cc` hands out the sixteen
\* dictionaries themselves, and line 451 indexes the list learned_cc with the
\* first of them: TypeError before any binding is looked at
midi_unlearn(t, zctrl) == [t |-> t, raised |-> NumMidiChannels > 0]

\* midi_unlearn_chan(chan): line 445 iterates self.zctrls[chan].values, the
\* bound method and not its result: TypeError before midi_unlearn is called
midi_unlearn_chan(t, chan) == [t |-> t, raised |-> TRUE]

\* get_learned_cc(zctrl): the pairs the call can return, the first one found
\* bound to zctrl on the lowest channel that has one (which cc of that channel
\* comes first is the dictionary's insertion order); None without a binding
get_learned_cc(t, zctrl) ==
    LET chans == {ch \in DOMAIN t : \E cc \in DOMAIN t[ch] : t[ch][cc] = zctrl}
    IN  IF chans = {} THEN {None}
        ELSE LET chan == CHOOSE ch \in chans : \A c2 \in chans : ch <= c2
             IN  {<<chan, cc>> : cc \in {c \in DOMAIN t[chan] : t[chan][c] = zctrl}}

LearnCtrls == {<<0, "level">>, <<MAX_NUM_CHANNELS, "mute">>}

MidiChanArgs == {0, NumMidiChannels - 1}

CcArgs == {LearnCcArg, 10}

MidiValArgs == {0, 127}

Bindings(t) == {b \in (DOMAIN t) \X CcArgs : b[2] \in DOMAIN t[b[1]]}

LearnCall(op, chan, ccnum, val, cb_calls, learned, forwarded) ==
    [op |-> op, chan |-> chan, ccnum |-> ccnum, val |-> val, cb_calls |-> cb_calls,
     learned |-> learned, forwarded |-> forwarded, raised |-> FALSE]

MidiControlChange == \E chan \in MidiChanArgs, ccnum \in CcArgs, val \in MidiValArgs :
    \E r \in {midi_control_change(Cur, chan, ccnum, val)} :
        /\ Cardinality(Bindings(r.t)) <= MaxBindings
        /\ Commit(r.m)
        /\ learned_cc' = r.t
        /\ midi_learn_zctrl' = r.midi_learn_zctrl
        /\ last' = LearnCall("midi_control_change", chan, ccnum, val, r.cb_calls,
                             r.learned, r.forwarded)
        /\ UNCHANGED <<lib_zynmixer, midi_learn_cb, midi_single_active_channel>>
        /\ OthersUnchanged

EnableMidiLearn == \E zctrl \in LearnCtrls :
    /\ midi_learn_zctrl' = zctrl
    /\ last' = LearnCall("enable_midi_learn", 0, 0, 0, 0, None, {})
    /\ UNCHANGED <<lib_zynmixer, libstate, zctrls, learned_cc, midi_learn_cb,
                   midi_single_active_channel>>
    /\ OthersUnchanged

DisableMidiLearn ==
    LET d == disable_midi_learn(midi_learn_cb)
    IN  /\ midi_learn_zctrl' = d.midi_learn_zctrl
        /\ last' = LearnCall("disable_midi_learn", 0, 0, 0, d.cb_calls, None, {})
        /\ UNCHANGED <<lib_zynmixer, libstate, zctrls, learned_cc, midi_learn_cb,
                       midi_single_active_channel>>
        /\ OthersUnchanged

SetMidiLearnCb == \E cb \in BOOLEAN :
    /\ midi_learn_cb' = cb
    /\ last' = LearnCall("set_midi_learn_cb", 0, 0, 0, 0, None, {})
    /\ UNCHANGED <<lib_zynmixer, libstate, zctrls, learned_cc, midi_learn_zctrl,
                   midi_single_active_channel>>
    /\ OthersUnchanged

\* the configuration flag zynthian_gui_config.midi_single_active_channel is
\* set outside the mixer
SetSingleActiveChannel == \E flag \in BOOLEAN :
    /\ midi_single_active_channel' = flag
    /\ last' = LearnCall("config", 0, 0, 0, 0, None, {})
    /\ UNCHANGED <<lib_zynmixer, libstate, zctrls, learned_cc, midi_learn_zctrl,
                   midi_learn_cb>>
    /\ OthersUnchanged

UnlearnCall(op, zctrl, chan, raised) ==
    [op |-> op, zctrl |-> zctrl, chan |-> chan, raised |-> raised]

MidiUnlearn == \E zctrl \in LearnCtrls :
    \E r \in {midi_unlearn(learned_cc, zctrl)} :
        /\ learned_cc' = r.t
        /\ last' = UnlearnCall("midi_unlearn", zctrl, 0, r.raised)
        /\ UNCHANGED <<lib_zynmixer, libstate, zctrls, midi_learn_zctrl, midi_learn_cb,
                       midi_single_active_channel>>
        /\ OthersUnchanged

MidiUnlearnChan == \E chan \in Strips :
    \E r \in {midi_unlearn_chan(learned_cc, chan)} :
        /\ learned_cc' = r.t
        /\ last' = UnlearnCall("midi_unlearn_chan", None, chan, r.raised)
        /\ UNCHANGED <<lib_zynmixer, libstate, zctrls, midi_learn_zctrl, midi_learn_cb,
                       midi_single_active_channel>>
        /\ OthersUnchanged

NextLearn ==
    \/ MidiControlChange
    \/ MidiUnlearn
    \/ MidiUnlearnChan
    \/ EnableMidiLearn
    \/ DisableMidiLearn
    \/ SetMidiLearnCb
    \/ SetSingleActiveChannel

SpecLearn == Init /\ [][NextLearn]_vars

(***************************************************************************)
(* The control screen's handlers                                           *)
(***************************************************************************)
SwitchArgs == 0..3

PressArgs == {"S", "B", "L"}

\* lengths of list_data tried
ListLenArgs == {0, 2, 4}

MixerUnchanged == UNCHANGED <<mixer_vars, pgm>>

Switch == \E swi \in SwitchArgs, t \in PressArgs :
    \E r \in {switch(gui, swi, t)} :
        /\ gui' = r.g
        /\ gui_last' = GuiCall("switch", swi, t, r.ret, r.selected)
        /\ MixerUnchanged

\* fill_list(): list_data is rebuilt from the current layer's screens
FillList == \E n \in ListLenArgs :
    /\ gui' = [gui EXCEPT !.list_len = n,
                          !.index = IF gui.index < n THEN gui.index ELSE 0]
    /\ gui_last' = GuiCall("fill_list", 0, "", "None", NoSelect)
    /\ MixerUnchanged

\* set_xyselect_mode(xctrl_i, yctrl_i)
SetXyselectMode ==
    /\ gui' = [gui EXCEPT !.xyselect_mode = TRUE]
    /\ gui_last' = GuiCall("set_xyselect_mode", 0, "", "None", NoSelect)
    /\ MixerUnchanged

\* cb_listbox_push in xyselect mode: zyngui shows the XY screen
CbListboxPush ==
    /\ gui.xyselect_mode
    /\ gui' = [gui EXCEPT !.control_xy_shown = TRUE]
    /\ gui_last' = GuiCall("cb_listbox_push", 0, "", "None", NoSelect)
    /\ MixerUnchanged

\* zyngui shows or hides the ALSA mixer screen
AlsaMixer == \E flag \in BOOLEAN :
    /\ gui' = [gui EXCEPT !.alsa_mixer_shown = flag]
    /\ gui_last' = GuiCall("alsa_mixer", 0, "", "None", NoSelect)
    /\ MixerUnchanged

BackAction ==
    \E r \in {back_action(gui)} :
        /\ gui' = r.g
        /\ gui_last' = GuiCall("back_action", 0, "", r.ret, r.selected)
        /\ MixerUnchanged

\* select_action(i, t)
SelectAction == \E i \in 0..3, t \in PressArgs :
    /\ gui' = select_action(gui)
    /\ gui_last' = GuiCall("select_action", i, t, "None", NoSelect)
    /\ MixerUnchanged

PageCall(op, wrap, selected) == [op |-> op, wrap |-> wrap, selected |-> selected]

PreviousPage == \E wrap \in BOOLEAN :
    \E r \in {previous_page(gui, wrap)} :
        /\ gui' = r.g
        /\ gui_last' = PageCall("previous_page", wrap, r.selected)
        /\ MixerUnchanged

NextPage == \E wrap \in BOOLEAN :
    \E r \in {next_page(gui, wrap)} :
        /\ gui' = r.g
        /\ gui_last' = PageCall("next_page", wrap, r.selected)
        /\ MixerUnchanged

ArrowUp ==
    \E r \in {arrow_up(gui)} :
        /\ gui' = r.g
        /\ gui_last' = PageCall("previous_page", FALSE, r.selected)
        /\ MixerUnchanged

ArrowDown ==
    \E r \in {arrow_down(gui)} :
        /\ gui' = r.g
        /\ gui_last' = PageCall("next_page", FALSE, r.selected)
        /\ MixerUnchanged

ZynpotCall(i, moved, reached, started) ==
    [op |-> "zynpot_cb", i |-> i, moved |-> moved, reached |-> reached,
     started |-> started]

\* zynpot_cb(i, dval) for the four encoders; moved tells whether dval moves the
\* value of the widget's controller
ZynpotCb == \E i \in 0..3, moved \in BOOLEAN :
    \E r \in {zynpot_cb(gui, i, moved)} :
        /\ gui' = r.g
        /\ gui_last' = ZynpotCall(i, moved, r.reached, r.started)
        /\ MixerUnchanged

\* zyngui shows the screen
Show ==
    /\ gui' = show(gui)
    /\ gui_last' = GuiCall("show", 0, "", "None", NoSelect)
    /\ MixerUnchanged

Hide ==
    /\ gui' = hide(gui)
    /\ gui_last' = GuiCall("hide", 0, "", "None", NoSelect)
    /\ MixerUnchanged

NextGui ==
    \/ Switch
    \/ BackAction
    \/ SelectAction
    \/ PreviousPage
    \/ NextPage
    \/ ArrowUp
    \/ ArrowDown
    \/ ZynpotCb
    \/ Show
    \/ Hide
    \/ FillList
    \/ SetXyselectMode
    \/ CbListboxPush
    \/ AlsaMixer

SpecGui == Init /\ [][NextGui]_vars

(***************************************************************************)
(* load_pgm_list as one call                                               *)
(***************************************************************************)
RECURSIVE Files(_)
Files(n) ==
    IF n = 0 THEN {<<>>}
    ELSE Files(n - 1) \cup
         {Append(f, FileLines[k]) : f \in {f \in Files(n - 1) : Len(f) = n - 1},
                                    k \in 1..Len(FileLines)}

PgmDone == pgm.pos > Len(pgm.lines)

GuiMixerUnchanged == UNCHANGED <<mixer_vars, gui, gui_last>>

\* the for loop over the file's lines
RECURSIVE ParseLines(_)
ParseLines(p) == IF p.pos > Len(p.lines) THEN p ELSE ParseLines(ParseLine(p))

\* load_pgm_list(fpath) on a file holding the lines f
load_pgm_list(f) == ParseLines([lines |-> f, pos |-> 1, i |-> 0, pgm_list |-> <<>>])

\* the function keeps nothing between calls, so one call per behaviour
\* covers every call
LoadPgmList == \E f \in Files(MaxLines) :
    /\ pgm = PgmIdle
    /\ pgm' = load_pgm_list(f)
    /\ GuiMixerUnchanged

NextPgm == LoadPgmList

SpecPgm == Init /\ [][NextPgm]_vars

Next ==
    \/ SetLevel
    \/ SetBalance
    \/ SetMute
    \/ SetPhase
    \/ SetSolo
    \/ SetMono
    \/ ToggleMute
    \/ TogglePhase
    \/ ToggleSolo
    \/ ToggleMono
    \/ Reset
    \/ ResetState
    \/ SetState
    \/ Destroy

Spec == Init /\ [][Next]_vars

(***************************************************************************)
(* Construction. Before the constructor runs, lib_zynmixer tells whether   *)
(* the native library can be loaded and libstate what it reports after its *)
(* init().                                                                 *)
(***************************************************************************)
\* zynmixer.__init__: lines 42-51 leave the handle or None; lines 53-64 build
\* one strip of controllers for range(get_max_channels() + 1), each with the
\* value its getter reports; line 68 reads getMaxChannels from the handle,
\* AttributeError when the handle is None
zynmixer_init ==
    LET m == Mixer(<<>>, libstate, FALSE)
        value(s, symbol) ==
            CASE symbol = "level"   -> get_level(m, s)
              [] symbol = "balance" -> get_balance(m, s)
              [] symbol = "mute"    -> get_mute(m, s)
              [] symbol = "solo"    -> IF get_solo(m, s) THEN 1 ELSE 0
              [] symbol = "mono"    -> IF get_mono(m, s) THEN 1 ELSE 0
              [] symbol = "phase"   -> get_phase(m, s)
    IN  [zctrls |-> [s \in 0..get_max_channels |-> [symbol \in Symbols |-> value(s, symbol)]],
         learned_cc |-> [chan \in 0..(NumMidiChannels - 1) |-> <<>>],
         midi_learn_zctrl |-> None,
         midi_learn_cb |-> FALSE,
         raised |-> ~lib_zynmixer]

InitBuild ==
    /\ lib_zynmixer \in BOOLEAN
    /\ libstate = LibInit
    /\ zctrls = <<>>
    /\ learned_cc = <<>>
    /\ midi_learn_zctrl = None
    /\ midi_learn_cb = FALSE
    /\ midi_single_active_channel = FALSE
    /\ last = Call("new", None, "", 0, FALSE)
    /\ gui = GuiInit
    /\ gui_last = GuiCall("init", 0, "", "None", 0)
    /\ pgm = PgmIdle

Construct ==
    /\ last.op = "new"
    /\ \E r \in {zynmixer_init} :
        /\ zctrls' = r.zctrls
        /\ learned_cc' = r.learned_cc
        /\ midi_learn_zctrl' = r.midi_learn_zctrl
        /\ midi_learn_cb' = r.midi_learn_cb
        /\ last' = Call(IF r.raised THEN "__init__" ELSE "init", None, "", 0, r.raised)
    /\ UNCHANGED <<lib_zynmixer, libstate, midi_single_active_channel>>
    /\ OthersUnchanged

\* a mixer exists once its constructor has returned
Built == last.op \notin {"new", "__init__"}

NextBuild ==
    \/ Construct
    \/ Built /\ Next

SpecBuild == InitBuild /\ [][NextBuild]_vars

(***************************************************************************)
(* Properties                                                              *)
(***************************************************************************)
\* the value a controller takes from the ends of the MIDI range
ScaledCc(symbol, val) == IF val = 0 THEN value_min(symbol) ELSE value_max(symbol)

\* the strip a call with an integer channel is meant to act on
TargetStrip(channel) ==
    IF channel >= MAX_NUM_CHANNELS THEN MAX_NUM_CHANNELS ELSE channel

\* C1: with a controller z armed, a control change on (chan, cc) binds
\* learned_cc[chan][cc] to z, clears the armed controller, calls the registered
\* callback once and forwards the value to no controller; the control change
\* right after it is handled without learning.
MidiLearnCapture ==
    [][ /\ (last'.op = "midi_control_change" /\ midi_learn_zctrl # None) =>
            /\ last'.ccnum \in DOMAIN learned_cc'[last'.chan]
            /\ learned_cc'[last'.chan][last'.ccnum] = midi_learn_zctrl
            /\ \A ch \in DOMAIN learned_cc : \A cc \in DOMAIN learned_cc[ch] :
                    <<ch, cc>> # <<last'.chan, last'.ccnum>> =>
                        /\ cc \in DOMAIN learned_cc'[ch]
                        /\ learned_cc'[ch][cc] = learned_cc[ch][cc]
            /\ midi_learn_zctrl' = None
            /\ last'.cb_calls = (IF midi_learn_cb THEN 1 ELSE 0)
            /\ last'.forwarded = {}
            /\ zctrls' = zctrls
            /\ libstate' = libstate
        /\ (/\ last'.op = "midi_control_change"
            /\ last.op = "midi_control_change"
            /\ last.learned # None) =>
            /\ last'.learned = None
            /\ last'.cb_calls = 0
            /\ learned_cc' = learned_cc ]_vars

\* a control change has just been captured for an armed controller, with a
\* callback registered
MidiLearnCaptureWitness ==
    /\ last.op = "midi_control_change"
    /\ last.learned # None
    /\ last.cb_calls = 1
    /\ midi_learn_zctrl = None
    /\ learned_cc[last.chan][last.ccnum] = last.learned

\* C2: with no controller armed and single-active-channel on, a control change
\* for cc reaches the controller bound to cc on every MIDI channel that binds
\* it, whatever the incoming channel; the binding table is unchanged.
SingleActiveChannel ==
    [][ (/\ last'.op = "midi_control_change"
         /\ midi_learn_zctrl = None
         /\ midi_single_active_channel) =>
            LET cc == last'.ccnum
                bound == {ch \in 0..(NumMidiChannels - 1) : cc \in DOMAIN learned_cc[ch]}
                ctrls == {learned_cc[ch][cc] : ch \in bound}
            IN  /\ last'.forwarded = ctrls
                /\ \A c \in ctrls : zctrls'[c[1]][c[2]] = ScaledCc(c[2], last'.val)
                /\ learned_cc' = learned_cc
                /\ midi_learn_zctrl' = None ]_vars

\* a control change came in on one channel and reached controllers bound on
\* two channels
SingleActiveChannelWitness ==
    /\ last.op = "midi_control_change"
    /\ last.learned = None
    /\ midi_single_active_channel
    /\ Cardinality(last.forwarded) = 2
    /\ \E ch \in DOMAIN learned_cc :
            /\ ch # last.chan
            /\ last.ccnum \in DOMAIN learned_cc[ch]
            /\ zctrls[learned_cc[ch][last.ccnum][1]][learned_cc[ch][last.ccnum][2]]
                    = ScaledCc(learned_cc[ch][last.ccnum][2], last.val)

\* C3: with no controller armed and single-active-channel off, a control
\* change on (chan, cc) reaches only the controller bound to exactly
\* (chan, cc); every other controller keeps its value.
PerChannelDispatch ==
    [][ (/\ last'.op = "midi_control_change"
         /\ midi_learn_zctrl = None
         /\ ~midi_single_active_channel) =>
            LET chan == last'.chan
                cc == last'.ccnum
                ctrls == IF cc \in DOMAIN learned_cc[chan]
                         THEN {learned_cc[chan][cc]} ELSE {}
            IN  /\ last'.forwarded = ctrls
                /\ \A c \in Strips \X Symbols :
                        IF c \in ctrls
                        THEN zctrls'[c[1]][c[2]] = ScaledCc(c[2], last'.val)
                        ELSE /\ zctrls'[c[1]][c[2]] = zctrls[c[1]][c[2]]
                             /\ libstate'[c[1]][c[2]] = libstate[c[1]][c[2]]
                /\ learned_cc' = learned_cc ]_vars

\* a control change reached the controller of its own channel while another
\* channel binds the same cc to a controller that kept a different value
PerChannelDispatchWitness ==
    /\ last.op = "midi_control_change"
    /\ last.learned = None
    /\ ~midi_single_active_channel
    /\ last.forwarded # {}
    /\ \E ch \in DOMAIN learned_cc :
            /\ ch # last.chan
            /\ last.ccnum \in DOMAIN learned_cc[ch]
            /\ learned_cc[ch][last.ccnum] \notin last.forwarded
            /\ zctrls[learned_cc[ch][last.ccnum][1]][learned_cc[ch][last.ccnum][2]]
                    # ScaledCc(learned_cc[ch][last.ccnum][2], last.val)

\* C4: after a set_level, set_balance, set_mute, set_solo, set_mono or
\* set_phase call with default arguments, the cached value of that strip and
\* parameter is the value passed, and get_state reports it.
CachedLastValue ==
    last.op = "set" =>
        LET strip == TargetStrip(last.channel.v)
        IN  /\ zctrls[strip][last.symbol] = last.value
            /\ get_state(Cur, TRUE)[StripKey(strip)][last.symbol]["value"] = last.value

\* the key the snapshot format gives a strip
SnapshotKey(strip) == IF strip < MAX_NUM_CHANNELS THEN ChanKey(strip) ELSE "main"

\* C5: after set_state(state, full) every controller present in state with a
\* "value" holds that value; every controller omitted from state holds its
\* default when full is True and its former value when full is False.
SetStateValues ==
    [][ last'.op = "set_state" =>
            LET state == StateOf(last'.arg)
            IN  \A strip \in Strips, symbol \in Symbols :
                    LET key == SnapshotKey(strip)
                        present == key \in DOMAIN state /\ symbol \in DOMAIN state[key]
                    IN  IF present
                        THEN "value" \in DOMAIN state[key][symbol] =>
                                zctrls'[strip][symbol] = state[key][symbol]["value"]
                        ELSE IF last'.full
                        THEN zctrls'[strip][symbol] = value_default(symbol)
                        ELSE zctrls'[strip][symbol] = zctrls[strip][symbol] ]_vars

ResetFrame ==
    [][ /\ (last'.op = "reset" /\ last'.channel.type = "int") =>
            LET strip == TargetStrip(last'.channel.v)
            IN  /\ \A symbol \in Symbols :
                        zctrls'[strip][symbol] = value_default(symbol)
                /\ \A s \in Strips \ {strip} :
                        zctrls'[s] = zctrls[s] /\ libstate'[s] = libstate[s]
                /\ learned_cc' = learned_cc
        /\ (last'.op = "reset" /\ last'.channel.type # "int") =>
            /\ zctrls' = zctrls
            /\ libstate' = libstate
            /\ learned_cc' = learned_cc
        /\ last'.op = "reset_state" =>
            /\ \A s \in 0..MAX_NUM_CHANNELS : \A symbol \in Symbols :
                    zctrls'[s][symbol] = value_default(symbol)
            /\ learned_cc' = learned_cc ]_vars

\* a strip has just been reset while another strip holds a value away from
\* its default
ResetFrameWitness ==
    /\ last.op = "reset"
    /\ last.channel.type = "int"
    /\ \E s \in Strips \ {TargetStrip(last.channel.v)} : zctrls[s] # DefaultValues[s]

\* C8: a set, toggle or reset call with channel >= MAX_NUM_CHANNELS acts on
\* the main mix bus strip and a call with a smaller channel on exactly that
\* strip; no other strip changes.
ChannelClamping ==
    [][ (/\ last'.op \in {"set", "toggle", "reset"}
         /\ last'.channel.type = "int") =>
            LET strip == TargetStrip(last'.channel.v)
            IN  /\ strip <= MAX_NUM_CHANNELS
                /\ \A s \in Strips \ {strip} :
                        zctrls'[s] = zctrls[s] /\ libstate'[s] = libstate[s]
                /\ last'.op = "set" =>
                        libstate'[strip][last'.symbol] = last'.value
                /\ last'.op = "toggle" =>
                        libstate'[strip][last'.symbol]
                            = 1 - libstate[strip][last'.symbol]
                /\ last'.op = "reset" =>
                        \A symbol \in Symbols :
                            libstate'[strip][symbol] = value_default(symbol) ]_vars

\* a set call with a channel beyond the main mix bus has just written the
\* main mix bus strip
ChannelClampingWitness ==
    /\ last.op = "set"
    /\ last.channel.v > MAX_NUM_CHANNELS
    /\ last.value # value_default(last.symbol)
    /\ libstate[MAX_NUM_CHANNELS][last.symbol] = last.value
    /\ \A s \in Strips \ {MAX_NUM_CHANNELS} : libstate[s] = LibInit[s]

\* C9: switch(swi, t) returns True or False for every switch index, press
\* type and screen state.
SwitchReturnsBoolean ==
    gui_last.op = "switch" => gui_last.ret \in {"True", "False"}

\* the digits line[1..d] read as a decimal number
DecimalValue(line, d) ==
    LET val[k \in 0..d] ==
            IF k = 0 THEN 0
            ELSE 10 * val[k - 1] + (CHOOSE n \in 0..9 : Digits[n + 1] = line[k])
    IN  val[d]

\* <<d, b>>: line[1..d] are digits, whitespace follows up to the '{' at b
NumberAndBrace(line) ==
    {h \in (1..Len(line)) \X (1..Len(line)) :
        /\ h[1] < h[2]
        /\ \A k \in 1..h[1] : IsDigit(line[k])
        /\ \A k \in (h[1] + 1)..(h[2] - 1) : IsSpace(line[k])
        /\ line[h[2]] = "{"}

\* <<n, q>>: after the '{' at b whitespace follows up to name=" at n, and the
\* title runs up to the closing quote at q
NameAndTitle(line, b) ==
    {t \in (1..Len(line)) \X (1..Len(line)) :
        /\ t[1] > b
        /\ \A k \in (b + 1)..(t[1] - 1) : IsSpace(line[k])
        /\ t[1] + 5 <= Len(line)
        /\ SubSeq(line, t[1], t[1] + 5) = <<"n", "a", "m", "e", "=", Quote>>
        /\ t[2] > t[1] + 6
        /\ line[t[2]] = Quote
        /\ \A k \in (t[1] + 6)..(t[2] - 1) : line[k] # Quote}

\* the program number and title a line states (no element when it states none)
ProgramOf(line) ==
    UNION {{[n |-> DecimalValue(line, h[1]),
             title |-> SubSeq(line, t[1] + 6, t[2] - 1)] : t \in NameAndTitle(line, h[2])} :
           h \in NumberAndBrace(line)}

\* C10: load_pgm_list returns, in file order, one entry per line that states a
\* program number n >= 1 and a title; the k-th entry (from 0, no gaps) is
\* (k, [0, 0, n-1], title); other lines and lines with program number 0 give
\* no entry and do not advance k.
ProgramListing ==
    LET produced == {j \in 1..Len(pgm.lines) :
                        \E p \in ProgramOf(pgm.lines[j]) : p.n >= 1}
        k(j) == Cardinality({j2 \in produced : j2 < j})
    IN  /\ Len(pgm.pgm_list) = Cardinality(produced)
        /\ \A j \in produced : \A p \in ProgramOf(pgm.lines[j]) :
                pgm.pgm_list[k(j) + 1] = <<k(j), <<0, 0, p.n - 1>>, p.title>>

\* a file whose first line states program 0 and whose second line states a
\* program: the one entry is numbered 0
ProgramListingWitness ==
    /\ Len(pgm.lines) = 2
    /\ ProgramOf(pgm.lines[1]) # {}
    /\ \A p \in ProgramOf(pgm.lines[1]) : p.n = 0
    /\ Len(pgm.pgm_list) = 1
    /\ pgm.pgm_list[1][1] = 0
    /\ pgm.pgm_list[1][2][3] > 0

\* the (channel, cc) pairs the table t binds to the controller zctrl
PairsOf(t, zctrl) ==
    {b \in (DOMAIN t) \X (0..127) : b[2] \in DOMAIN t[b[1]] /\ t[b[1]][b[2]] = zctrl}

\* C11: midi_unlearn(zctrl) removes every binding of zctrl and keeps the
\* bindings of other controllers; midi_unlearn_chan(chan) does so for the six
\* controllers of strip chan; neither raises.
MidiUnlearnRemoves ==
    [][ /\ last'.op = "midi_unlearn" =>
            /\ ~last'.raised
            /\ PairsOf(learned_cc', last'.zctrl) = {}
            /\ \A c \in (Strips \X Symbols) \ {last'.zctrl} :
                    PairsOf(learned_cc', c) = PairsOf(learned_cc, c)
        /\ last'.op = "midi_unlearn_chan" =>
            /\ ~last'.raised
            /\ \A c \in Strips \X Symbols :
                    PairsOf(learned_cc', c)
                        = IF c[1] = last'.chan THEN {} ELSE PairsOf(learned_cc, c) ]_vars

\* C12: each controller is bound to at most one (channel, cc) pair, and
\* get_learned_cc returns that pair, or None when there is none.
BindingUniqueness ==
    \A c \in Strips \X Symbols :
        /\ Cardinality(PairsOf(learned_cc, c)) <= 1
        /\ get_learned_cc(learned_cc, c)
                = IF PairsOf(learned_cc, c) = {} THEN {None} ELSE PairsOf(learned_cc, c)

\* C13: when the native library cannot be loaded, construction completes with
\* the handle None, and then get_max_channels returns 0, get_level and
\* get_balance 0, get_mute, get_solo, get_mono and get_phase True, get_dpm and
\* get_dpm_hold -200.0 and is_channel_routed False.
LibraryUnavailable ==
    (last.op \in {"init", "__init__"} /\ ~lib_zynmixer) =>
        /\ ~last.raised
        /\ get_max_channels = 0
        /\ \A channel \in ChannelArgs :
            /\ get_level(Cur, channel) = 0
            /\ get_balance(Cur, channel) = 0
            /\ get_mute(Cur, channel) = 1
            /\ get_solo(Cur, channel) = TRUE
            /\ get_mono(Cur, channel) = TRUE
            /\ get_phase(Cur, channel) = 1
            /\ is_channel_routed(channel) = FALSE
            /\ \A leg \in {0, 1} :
                /\ get_dpm(channel, leg) = 0 - 2000
                /\ get_dpm_hold(channel, leg) = 0 - 2000

\* the snapshot keys of the strips are those of the format, all different
KeysDistinct ==
    /\ \A s \in Strips : StripKey(s) = SnapshotKey(s)
    /\ \A s1 \in Strips, s2 \in Strips : s1 # s2 => StripKey(s1) # StripKey(s2)
    /\ DOMAIN get_state(Cur, TRUE) = {SnapshotKey(s) : s \in Strips}

LearnState(g) == <<g.midi_learn_mode, g.midi_learn_zctrl, g.midi_learning>>

\* C15: back_action in 'select' mode switches to 'control' mode and returns
\* True, leaving xyselect and MIDI-learn state alone; otherwise with xyselect
\* mode on it hides the XY screen if shown, else turns xyselect mode off, and
\* returns True; otherwise with global MIDI-learn mode on or a controller being
\* learned it exits MIDI learn and returns True; otherwise it changes nothing
\* and returns False.
BackActionPriority ==
    [][ gui_last'.op = "back_action" =>
            IF gui.mode = "select"
            THEN /\ gui'.mode = "control"
                 /\ gui_last'.ret = "True"
                 /\ gui'.xyselect_mode = gui.xyselect_mode
                 /\ gui'.control_xy_shown = gui.control_xy_shown
                 /\ LearnState(gui') = LearnState(gui)
            ELSE IF gui.xyselect_mode
            THEN /\ gui_last'.ret = "True"
                 /\ IF gui.control_xy_shown
                    THEN ~gui'.control_xy_shown /\ gui'.xyselect_mode
                    ELSE ~gui'.xyselect_mode
                 /\ LearnState(gui') = LearnState(gui)
            ELSE IF gui.midi_learn_mode \/ gui.midi_learn_zctrl
            THEN /\ gui_last'.ret = "True"
                 /\ LearnState(gui') = <<FALSE, FALSE, FALSE>>
                 /\ gui'.mode = gui.mode
            ELSE /\ gui_last'.ret = "False"
                 /\ gui' = gui ]_vars

\* back_action has just hidden the XY screen while MIDI-learn mode was on: the
\* XY screen came first, xyselect mode and MIDI learn are still on
BackActionPriorityWitness ==
    /\ gui_last.op = "back_action"
    /\ gui_last.ret = "True"
    /\ gui.xyselect_mode
    /\ ~gui.control_xy_shown
    /\ gui.midi_learn_mode
    /\ gui.shown

\* C16: a short press of switch 3 in 'control' mode enters 'select' mode when
\* the list has more than 3 entries and otherwise selects the next page with
\* wrap-around, staying in 'control' mode; a short press of switch 3 in
\* 'select' mode and any select_action enter 'control' mode; mode is None
\* (only before the first transition), 'select' or 'control'.
ModeMachine ==
    [][ /\ (/\ gui_last'.op = "switch" /\ gui_last'.swi = 3 /\ gui_last'.t = "S"
            /\ gui.mode = "control") =>
                IF gui.list_len > 3
                THEN gui'.mode = "select"
                ELSE /\ gui'.mode = "control"
                     /\ gui_last'.selected
                            = (IF gui.index + 1 >= gui.list_len THEN 0 ELSE gui.index + 1)
                     /\ gui'.index = gui_last'.selected
        /\ (/\ gui_last'.op = "switch" /\ gui_last'.swi = 3 /\ gui_last'.t = "S"
            /\ gui.mode = "select") => gui'.mode = "control"
        /\ gui_last'.op = "select_action" => gui'.mode = "control"
        /\ gui'.mode \in {"None", "select", "control"}
        /\ gui'.mode = "None" => gui.mode = "None" ]_vars

\* a short press of switch 3 in 'control' mode on the last of two pages has
\* just wrapped to the first page
ModeMachineWitness ==
    /\ gui_last.op = "switch"
    /\ gui_last.swi = 3
    /\ gui_last.t = "S"
    /\ gui.mode = "control"
    /\ gui.list_len = 2
    /\ gui_last.selected = 0
    /\ gui.index = 0

\* C17: previous_page selects index-1, not below 0 and never wrapping;
\* next_page selects index+1 and, past the last entry, 0 when wrap is True and
\* the last entry when wrap is False; the index handed to select lies in
\* 0..len(list_data)-1 or is 0, for the empty list too.
PagingBounds ==
    [][ /\ gui_last'.op = "previous_page" =>
            gui_last'.selected = (IF gui.index - 1 < 0 THEN 0 ELSE gui.index - 1)
        /\ gui_last'.op = "next_page" =>
            gui_last'.selected
                = (IF gui.index + 1 < gui.list_len THEN gui.index + 1
                   ELSE IF gui_last'.wrap THEN 0 ELSE gui.list_len - 1)
        /\ gui_last'.op \in {"previous_page", "next_page"} =>
            \/ gui_last'.selected \in 0..(gui.list_len - 1)
            \/ gui_last'.selected = 0 ]_vars

\* C18: an encoder event reaches a widget's controller only in 'control' mode
\* with a non-empty controller list, drives the selector in 'select' mode and
\* is ignored otherwise; with the screen shown and global MIDI-learn mode on,
\* the first event that changes controller i clears MIDI-learn mode and starts
\* MIDI learn for controller i only; with MIDI-learn mode off no event starts
\* a learn.
OneShotLearn ==
    [][ gui_last'.op = "zynpot_cb" =>
            /\ gui_last'.reached
                = (IF gui.mode = "control" /\ gui.zcontrollers > 0 THEN "controller"
                   ELSE IF gui.mode = "select" THEN "selector" ELSE "ignored")
            /\ gui_last'.reached # "controller" =>
                    gui_last'.started = {} /\ LearnState(gui') = LearnState(gui)
            /\ (/\ gui_last'.reached = "controller"
                /\ gui_last'.moved
                /\ gui_last'.i < gui.zcontrollers
                /\ gui.shown
                /\ gui.midi_learn_mode) =>
                    /\ ~gui'.midi_learn_mode
                    /\ gui'.midi_learn_zctrl
                    /\ gui_last'.started = {gui_last'.i}
            /\ ~gui.midi_learn_mode =>
                    gui_last'.started = {} /\ LearnState(gui') = LearnState(gui) ]_vars

\* an encoder event has just started MIDI learn for its controller and
\* cleared global MIDI-learn mode
OneShotLearnWitness ==
    /\ gui_last.op = "zynpot_cb"
    /\ gui_last.started = {gui_last.i}
    /\ gui_last.i > 0
    /\ gui.shown
    /\ ~gui.midi_learn_mode
    /\ gui.midi_learn_zctrl

\* the toggle of a parameter, called with default arguments
ToggleBySymbol(m, symbol, channel) ==
    CASE symbol = "mute"  -> toggle_mute(m, channel)
      [] symbol = "phase" -> toggle_phase(m, channel, TRUE)
      [] symbol = "solo"  -> toggle_solo(m, channel, TRUE)
      [] symbol = "mono"  -> toggle_mono(m, channel, TRUE)

\* C19: toggle_mute, toggle_phase, toggle_solo and toggle_mono with default
\* arguments invert the parameter of the clamped strip in the library and
\* leave the cached value equal to the library's new value; a second toggle
\* brings back the library value and the cached value.
TogglesKeepCache ==
    [][ last'.op = "toggle" =>
            LET strip == TargetStrip(last'.channel.v)
                symbol == last'.symbol
                again == ToggleBySymbol(Mixer(zctrls', libstate', FALSE), symbol,
                                        last'.channel.v)
            IN  /\ libstate'[strip][symbol] = 1 - libstate[strip][symbol]
                /\ zctrls'[strip][symbol] = libstate'[strip][symbol]
                /\ again.libstate[strip][symbol] = libstate[strip][symbol]
                /\ again.zctrls[strip][symbol] = zctrls[strip][symbol] ]_vars

\* C20: a set_state entry holding "value", "midi_learn_chan" and
\* "midi_learn_cc" leaves the controller at that value, with full True or
\* False, and bound to (midi_learn_chan, midi_learn_cc); a failure while
\* restoring the binding does not discard the value.
RestoreLearned ==
    [][ (last'.op = "set_state" /\ last'.arg.kind = "entry") =>
            LET state == EntryStates[last'.arg.i]
            IN  \A strip \in Strips, symbol \in Symbols :
                    LET key == SnapshotKey(strip)
                    IN  (/\ key \in DOMAIN state
                         /\ symbol \in DOMAIN state[key]
                         /\ {"value", "midi_learn_chan", "midi_learn_cc"}
                                \subseteq DOMAIN state[key][symbol]) =>
                            LET e == state[key][symbol]
                            IN  /\ zctrls'[strip][symbol] = e["value"]
                                /\ (/\ e["midi_learn_chan"].type = "int"
                                    /\ e["midi_learn_cc"].type = "int") =>
                                        /\ e["midi_learn_cc"].v
                                            \in DOMAIN learned_cc'[e["midi_learn_chan"].v]
                                        /\ learned_cc'[e["midi_learn_chan"].v][e["midi_learn_cc"].v]
                                            = <<strip, symbol>> ]_vars

====
